---- MODULE Spec2Model ----
(***************************************************************************)
(* The YoGuido browser runtime (yoguido_build/main.js) on its host page    *)
(* (yoguido_build/index.html): boot, the render of a component tree into   *)
(* the content host, the button handler registry, and the round trips to   *)
(* POST /api/render and POST /hcc.                                         *)
(***************************************************************************)
EXTENDS Integers, Sequences, FiniteSets, TLC

(***************************************************************************)
(* Bounds of the model.                                                    *)
(***************************************************************************)
\* number of requests one run issues (the timestamp is a logical clock)
MaxRequests == 3
\* number of requests that may be awaiting their response at once
MaxInFlight == 2

(***************************************************************************)
(* JavaScript values.                                                      *)
(***************************************************************************)
\* undefined: a property the server did not send
Undefined == [undefined |-> TRUE]
\* null
Null == [null |-> TRUE]

IsNullish(v) == v = Undefined \/ v = Null

\* obj.field of an object that is not nullish; "" stands for an absent string
Get(obj, field) == IF field \in DOMAIN obj THEN obj[field] ELSE ""

\* s || dflt on strings
OrStr(s, dflt) == IF s = "" THEN dflt ELSE s

\* n || dflt on numbers
OrNum(n, dflt) == IF n = 0 THEN dflt ELSE n

\* `${n}` for the heading levels
NumStr(n) == CASE n = 1 -> "1" [] n = 2 -> "2" [] n = 3 -> "3"
               [] n = 4 -> "4" [] n = 5 -> "5" [] OTHER -> "6"

\* String.prototype.toUpperCase on one character
ToUpperCase(c) == CASE c = "a" -> "A" [] c = "n" -> "N" [] c = "m" -> "M"
                    [] c = "e" -> "E" [] c = "g" -> "G" [] OTHER -> c

RECURSIVE Join(_)
\* a sequence of characters as one string
Join(cs) == IF cs = <<>> THEN "" ELSE Head(cs) \o Join(Tail(cs))

(***************************************************************************)
(* Native elements.  An element carries the listener that was attached to  *)
(* it; a listener closes over the id and the handler id it was built with. *)
(***************************************************************************)
NoListener == [event |-> "none", elementId |-> "", handlerId |-> "", reads |-> "none"]

\* document.createElement(tag) with the properties the constructors assign:
\* value is the control's value, flag its checked or selected state
Element(tag, id, text, className, value, flag, children, on) ==
    [tag |-> tag, id |-> id, text |-> text, className |-> className,
     value |-> value, flag |-> flag, children |-> children, on |-> on]

\* the outcome of a constructor: it returned el, or it threw; reg is the
\* registry as the constructor left it
Returned(el, reg) == [threw |-> FALSE, el |-> <<el>>, reg |-> reg]
Threw(reg) == [threw |-> TRUE, el |-> <<>>, reg |-> reg]

\* Map.prototype.set
MapSet(reg, key, value) == [k \in DOMAIN reg \cup {key} |-> IF k = key THEN value ELSE reg[k]]

\* a Map with no entries
EmptyMap == <<>>

createTitle(id, props, reg) ==
    IF IsNullish(props) THEN Threw(reg)
    ELSE Returned(Element("h" \o NumStr(OrNum(IF "level" \in DOMAIN props THEN props.level ELSE 0, 1)),
                          id, Get(props, "text"),
                          OrStr(Get(props, "class_name"), "text-2xl font-bold text-gray-900 mb-4"),
                          "", FALSE, <<>>, NoListener), reg)

createText(id, props, reg) ==
    IF IsNullish(props) THEN Threw(reg)
    ELSE Returned(Element("p", id, Get(props, "content"),
                          OrStr(Get(props, "class_name"), "text-gray-600 mb-2"),
                          "", FALSE, <<>>, NoListener), reg)

\* handlers && handlers.click
HasClick(handlers) == ~IsNullish(handlers) /\ Get(handlers, "click") # ""

\* createButton whose listener posts the element id as the handler id
createButtonPostingId(id, props, handlers, reg) ==
    IF IsNullish(props) THEN Threw(reg)
    ELSE Returned(Element("button", id, OrStr(Get(props, "label"), "Button"),
                          OrStr(Get(props, "class_name"), "bg-blue-500 text-white px-4 py-2 rounded hover:bg-blue-600 transition-colors"),
                          "", FALSE, <<>>,
                          IF HasClick(handlers)
                          THEN [event |-> "click", elementId |-> id,
                                handlerId |-> id, reads |-> "none"]
                          ELSE NoListener),
                  IF HasClick(handlers) THEN MapSet(reg, id, handlers.click) ELSE reg)

\* createButton that attaches its listener whether or not handlers.click is set
createButtonAlwaysListening(id, props, handlers, reg) ==
    IF IsNullish(props) THEN Threw(reg)
    ELSE Returned(Element("button", id, OrStr(Get(props, "label"), "Button"),
                          OrStr(Get(props, "class_name"), "bg-blue-500 text-white px-4 py-2 rounded hover:bg-blue-600 transition-colors"),
                          "", FALSE, <<>>,
                          [event |-> "click", elementId |-> id,
                           handlerId |-> IF HasClick(handlers) THEN handlers.click ELSE "",
                           reads |-> "none"]),
                  IF HasClick(handlers) THEN MapSet(reg, id, handlers.click) ELSE reg)

createButton(id, props, handlers, reg) ==
    IF IsNullish(props) THEN Threw(reg)
    ELSE Returned(Element("button", id, OrStr(Get(props, "label"), "Button"),
                          OrStr(Get(props, "class_name"), "bg-blue-500 text-white px-4 py-2 rounded hover:bg-blue-600 transition-colors"),
                          "", FALSE, <<>>,
                          IF HasClick(handlers)
                          THEN [event |-> "click", elementId |-> id,
                                handlerId |-> handlers.click, reads |-> "none"]
                          ELSE NoListener),
                  IF HasClick(handlers) THEN MapSet(reg, id, handlers.click) ELSE reg)

createInputText(id, props, reg) ==
    IF IsNullish(props) THEN Threw(reg)
    ELSE Returned(Element("input", id, "",
                          OrStr(Get(props, "class_name"), "border border-gray-300 rounded px-3 py-2"),
                          Get(props, "value"), FALSE, <<>>,
                          [event |-> "input", elementId |-> id, handlerId |-> "",
                           reads |-> "value"]), reg)

\* props.options || []
Options(props) == IF "options" \in DOMAIN props THEN props.options ELSE <<>>

\* option.value || option: an option is a plain string [plain |-> s] or an
\* object [value |-> v, label |-> l]; an object without value is used itself
OptionValue(option) ==
    IF "plain" \in DOMAIN option THEN option.plain
    ELSE OrStr(Get(option, "value"), "[object Object]")

\* option.label || option
OptionLabel(option) ==
    IF "plain" \in DOMAIN option THEN option.plain
    ELSE OrStr(Get(option, "label"), "[object Object]")

createSelect(id, props, reg) ==
    IF IsNullish(props) THEN Threw(reg)
    ELSE Returned(Element("select", id, "",
                          OrStr(Get(props, "class_name"), "border border-gray-300 rounded px-3 py-2"),
                          "", FALSE,
                          [i \in 1..Len(Options(props)) |->
                              Element("option", "", OptionLabel(Options(props)[i]), "",
                                      OptionValue(Options(props)[i]),
                                      "value" \in DOMAIN props
                                         /\ props.value = OptionValue(Options(props)[i]),
                                      <<>>, NoListener)],
                          [event |-> "change", elementId |-> id, handlerId |-> "",
                           reads |-> "value"]), reg)

\* createCheckbox whose listener reports event.target.value
createCheckboxReadingValue(id, props, reg) ==
    IF IsNullish(props) THEN Threw(reg)
    ELSE Returned(Element("div", "", "",
                          OrStr(Get(props, "class_name"), "flex items-center space-x-2"),
                          "", FALSE,
                          << Element("input", id, "", "rounded", "",
                                     "checked" \in DOMAIN props /\ props.checked, <<>>,
                                     [event |-> "change", elementId |-> id,
                                      handlerId |-> "", reads |-> "value"]),
                             Element("label", "", Get(props, "label"),
                                     "text-sm font-medium text-gray-700", "", FALSE,
                                     <<>>, NoListener) >>,
                          NoListener), reg)

createCheckbox(id, props, reg) ==
    IF IsNullish(props) THEN Threw(reg)
    ELSE Returned(Element("div", "", "",
                          OrStr(Get(props, "class_name"), "flex items-center space-x-2"),
                          "", FALSE,
                          << Element("input", id, "", "rounded", "",
                                     "checked" \in DOMAIN props /\ props.checked, <<>>,
                                     [event |-> "change", elementId |-> id,
                                      handlerId |-> "", reads |-> "checked"]),
                             Element("label", "", Get(props, "label"),
                                     "text-sm font-medium text-gray-700", "", FALSE,
                                     <<>>, NoListener) >>,
                          NoListener), reg)

\* props.columns, a sequence of column keys (each a sequence of characters);
\* <<>> when absent
Columns(props) == IF "columns" \in DOMAIN props THEN props.columns ELSE <<>>

\* props.data || []
Data(props) == IF "data" \in DOMAIN props THEN props.data ELSE <<>>

\* column.charAt(0).toUpperCase() + column.slice(1)
HeaderText(column) ==
    IF column = <<>> THEN "" ELSE ToUpperCase(Head(column)) \o Join(Tail(column))

\* Object.keys(row): a row is a sequence of cells [key |-> column, value |-> text]
ObjectKeys(row) == [i \in 1..Len(row.cells) |-> row.cells[i].key]

\* row[column] || ''
RowValue(row, column) ==
    IF \E i \in 1..Len(row.cells) : row.cells[i].key = column
    THEN row.cells[CHOOSE i \in 1..Len(row.cells) : row.cells[i].key = column].value
    ELSE ""

\* the columns one body row iterates: props.columns || Object.keys(row)
RowColumns(props, row) == IF "columns" \in DOMAIN props THEN props.columns ELSE ObjectKeys(row)

createTable(id, props, reg) ==
    IF IsNullish(props) THEN Threw(reg)
    ELSE IF \E r \in 1..Len(Data(props)) :
               /\ IsNullish(Data(props)[r])
               /\ ("columns" \notin DOMAIN props \/ Len(props.columns) > 0)
    THEN Threw(reg)
    ELSE LET thead ==
                 IF Len(Columns(props)) > 0
                 THEN << Element("thead", "", "", "bg-gray-50", "", FALSE,
                           << Element("tr", "", "", "", "", FALSE,
                                [c \in 1..Len(Columns(props)) |->
                                   Element("th", "", HeaderText(Columns(props)[c]),
                                           "px-6 py-3 text-left text-xs font-medium text-gray-500 uppercase tracking-wider",
                                           "", FALSE, <<>>, NoListener)],
                                NoListener) >>, NoListener) >>
                 ELSE <<>>
             tbody ==
                 Element("tbody", "", "", "bg-white divide-y divide-gray-200", "", FALSE,
                   [r \in 1..Len(Data(props)) |->
                      Element("tr", "", "",
                              IF (r - 1) % 2 = 0 THEN "bg-white" ELSE "bg-gray-50",
                              "", FALSE,
                              [c \in 1..Len(RowColumns(props, Data(props)[r])) |->
                                 Element("td", "",
                                         RowValue(Data(props)[r],
                                                  RowColumns(props, Data(props)[r])[c]),
                                         "px-6 py-4 whitespace-nowrap text-sm text-gray-900",
                                         "", FALSE, <<>>, NoListener)],
                              NoListener)],
                   NoListener)
         IN  Returned(Element("div", "", "", "overflow-x-auto", "", FALSE,
                        << Element("table", id, "",
                                   OrStr(Get(props, "class_name"), "w-full divide-y divide-gray-200"),
                                   "", FALSE, thead \o <<tbody>>, NoListener) >>,
                        NoListener), reg)

\* componentData.children || []
Children(componentData) ==
    IF IsNullish(componentData.children) THEN <<>> ELSE componentData.children

\* a default branch that throws on a type it does not know
createUnknownThrowing(type, reg) == Threw(reg)

\* the default branch of createElement: a div naming the unknown type
createUnknown(type, reg) ==
    Returned(Element("div", "", "Unknown component: " \o type, "", "", FALSE, <<>>,
                     NoListener), reg)

RECURSIVE createElement(_, _), appendChildren(_, _)

\* children.forEach(child => element.appendChild(this.createElement(child))):
\* the first child that throws ends the loop and the throw leaves it
appendChildren(children, reg) ==
    IF children = <<>> THEN [threw |-> FALSE, els |-> <<>>, reg |-> reg]
    ELSE LET first == createElement(Head(children), reg)
         IN  IF first.threw THEN [threw |-> TRUE, els |-> <<>>, reg |-> first.reg]
             ELSE LET rest == appendChildren(Tail(children), first.reg)
                  IN  [threw |-> rest.threw, els |-> first.el \o rest.els, reg |-> rest.reg]

createContainer(id, props, children, reg) ==
    IF IsNullish(props) THEN Threw(reg)
    ELSE LET kids == appendChildren(children, reg)
         IN  IF kids.threw THEN Threw(kids.reg)
             ELSE Returned(Element("div", id, "", OrStr(Get(props, "class_name"), "p-6"),
                                   "", FALSE, kids.els, NoListener), kids.reg)

\* destructuring a nullish componentData throws
createElement(componentData, reg) ==
    IF IsNullish(componentData) THEN Threw(reg)
    ELSE CASE componentData.type = "title" ->
                createTitle(componentData.id, componentData.props, reg)
           [] componentData.type = "text" ->
                createText(componentData.id, componentData.props, reg)
           [] componentData.type = "button" ->
                createButton(componentData.id, componentData.props, componentData.handlers, reg)
           [] componentData.type = "container" ->
                createContainer(componentData.id, componentData.props,
                                Children(componentData), reg)
           [] componentData.type = "input_text" ->
                createInputText(componentData.id, componentData.props, reg)
           [] componentData.type = "select" ->
                createSelect(componentData.id, componentData.props, reg)
           [] componentData.type = "checkbox" ->
                createCheckbox(componentData.id, componentData.props, reg)
           [] componentData.type = "table" ->
                createTable(componentData.id, componentData.props, reg)
           [] OTHER -> createUnknown(componentData.type, reg)

(***************************************************************************)
(* A component tree as the controller holds it: the array of root nodes    *)
(* the server sent, or a truthy value that is not an array.                *)
(***************************************************************************)
ArrayOf(nodes) == [isArray |-> TRUE, nodes |-> nodes]
NotAnArray == [isArray |-> FALSE, nodes |-> <<>>]

RECURSIVE forEachComponent(_, _, _)
\* the forEach of renderComponentTree inserting each element before the others
forEachComponentPrepending(components, content, reg) ==
    IF components = <<>> THEN [threw |-> FALSE, content |-> content, reg |-> reg]
    ELSE IF IsNullish(Head(components))
    THEN [threw |-> TRUE, content |-> content, reg |-> reg]
    ELSE LET made == createElement(Head(components), reg)
         IN  forEachComponent(Tail(components), made.el \o content, made.reg)

\* the forEach of renderComponentTree: a nullish component throws at the log
\* line, outside the try, and ends the loop; a constructor that throws is
\* caught and the loop goes on
forEachComponent(components, content, reg) ==
    IF components = <<>> THEN [threw |-> FALSE, content |-> content, reg |-> reg]
    ELSE IF IsNullish(Head(components))
    THEN [threw |-> TRUE, content |-> content, reg |-> reg]
    ELSE LET made == createElement(Head(components), reg)
         IN  forEachComponent(Tail(components), content \o made.el, made.reg)

\* renderComponentTree() without the clear of the registry
renderComponentTreeKeepingHandlers(tree, page, content, reg) ==
    IF "app-content" \notin page
    THEN [threw |-> FALSE, content |-> content, reg |-> reg]
    ELSE IF ~tree.isArray
    THEN [threw |-> TRUE, content |-> <<>>, reg |-> reg]
    ELSE forEachComponent(tree.nodes, <<>>, reg)

\* renderComponentTree() without appContent.innerHTML = ''
renderComponentTreeAppending(tree, page, content, reg) ==
    IF "app-content" \notin page
    THEN [threw |-> FALSE, content |-> content, reg |-> reg]
    ELSE IF ~tree.isArray
    THEN [threw |-> TRUE, content |-> content, reg |-> EmptyMap]
    ELSE forEachComponent(tree.nodes, content, EmptyMap)

\* renderComponentTree(): what it leaves in the content host and the
\* registry, and whether it threw
renderComponentTree(tree, page, content, reg) ==
    IF "app-content" \notin page
    THEN [threw |-> FALSE, content |-> content, reg |-> reg]
    ELSE IF ~tree.isArray
    THEN [threw |-> TRUE, content |-> <<>>, reg |-> EmptyMap]
    ELSE forEachComponent(tree.nodes, <<>>, EmptyMap)

\* every element of a forest, at any depth
RECURSIVE Descendants(_)
Descendants(els) ==
    IF els = <<>> THEN {}
    ELSE {Head(els)} \cup Descendants(Head(els).children) \cup Descendants(Tail(els))

\* the elements that carry a listener
Controls(els) == {e \in Descendants(els) : e.on.event # "none"}

(***************************************************************************)
(* The server: the trees it sends and the ways a round trip can end.       *)
(***************************************************************************)
Node(type, id, props, handlers, children) ==
    [type |-> type, id |-> id, props |-> props, handlers |-> handlers,
     children |-> children]

TreeHello ==
    << Node("title", "t1", [text |-> "Hi"], Undefined, Undefined),
       Node("button", "b1", [label |-> "Go"], [click |-> "h1"], Undefined) >>

TreeForm ==
    << Node("container", "c1", [class_name |-> "box"], Undefined,
            << Node("button", "b1", [label |-> "Save"], [click |-> "h2"], Undefined),
               Node("input_text", "i1", [placeholder |-> "name"], Undefined, Undefined),
               Node("checkbox", "k1", [label |-> "ok", checked |-> TRUE],
                    [change |-> "h3"], Undefined),
               Node("select", "s1",
                    [options |-> << [value |-> "a", label |-> "A"],
                                    [value |-> "b", label |-> "B"] >>,
                     value |-> "b"], Undefined, Undefined),
               Node("gauge", "g1", [text |-> "g"], Undefined, Undefined) >>),
       Node("button", "b2", [class_name |-> ""], Undefined, Undefined) >>

\* a container whose second child has no props: its constructor throws
TreeBrokenChild ==
    << Node("container", "c1", [class_name |-> ""], Undefined,
            << Node("button", "b1", [label |-> "Go"], [click |-> "h1"], Undefined),
               Node("title", "t2", Undefined, Undefined, Undefined) >>),
       Node("text", "t3", [content |-> "after"], Undefined, Undefined) >>

\* a root without props between roots that construct, an unknown type, and a
\* table with a missing cell
TreeBrokenRoot ==
    << Node("button", "b2", [label |-> "Two"], [click |-> "h2"], Undefined),
       Node("text", "t1", Undefined, Undefined, Undefined),
       Node("chart", "x1", Undefined, Undefined, Undefined),
       Node("table", "d1",
            [columns |-> << <<"n", "a", "m", "e">>, <<"a", "g", "e">> >>,
             data |-> << [cells |-> << [key |-> <<"n", "a", "m", "e">>, value |-> "Ann"] >>] >>],
            Undefined, Undefined) >>

\* an array with a null entry
TreeNullRoot ==
    << Node("button", "b1", [label |-> "Go"], [click |-> "h1"], Undefined),
       Null,
       Node("text", "t3", [content |-> "after"], Undefined, Undefined) >>

\* the values of component_tree the server sends
ServerTrees ==
    { ArrayOf(<<>>), ArrayOf(TreeHello), ArrayOf(TreeForm), ArrayOf(TreeBrokenChild),
      ArrayOf(TreeBrokenRoot), ArrayOf(TreeNullRoot), NotAnArray }

\* how a fetch ends: the promise rejects, or a response arrives; a response
\* has a status, and a body that parses as JSON or does not, with or without
\* a truthy component_tree
Rejected == [kind |-> "rejected", ok |-> FALSE, statusText |-> "", json |-> FALSE,
             hasTree |-> FALSE, tree |-> ArrayOf(<<>>)]
\* a 500 whose body is JSON all the same and names an empty tree
ServerError == [kind |-> "http", ok |-> FALSE, statusText |-> "Internal Server Error",
                json |-> TRUE, hasTree |-> TRUE, tree |-> ArrayOf(<<>>)]
Unparsable == [kind |-> "http", ok |-> TRUE, statusText |-> "OK", json |-> FALSE,
               hasTree |-> FALSE, tree |-> ArrayOf(<<>>)]
NoTree == [kind |-> "http", ok |-> TRUE, statusText |-> "OK", json |-> TRUE,
           hasTree |-> FALSE, tree |-> ArrayOf(<<>>)]
WithTree(t) == [kind |-> "http", ok |-> TRUE, statusText |-> "OK", json |-> TRUE,
                hasTree |-> TRUE, tree |-> t]

Outcomes == {Rejected, ServerError, Unparsable, NoTree} \cup {WithTree(t) : t \in ServerTrees}

\* error.message of the errors the handlers catch
FetchFailedMessage == "Failed to fetch"
JsonErrorMessage == "Unexpected end of JSON input"
RenderThrowMessage == "Cannot read properties of null (reading 'type')"
ForEachMessage == "this.componentTree.forEach is not a function"

(***************************************************************************)
(* The state.                                                              *)
(***************************************************************************)
VARIABLES
    page,             \* the ids of the elements the host page has
    bodyLoaded,       \* the host page set the class yoguido-loaded on body
    loadingDisplay,   \* style.display of #loading
    appDisplay,       \* style.display of #app-content
    appContent,       \* the children of #app-content
    componentTree,    \* this.componentTree
    buttonHandlers,   \* this.buttonHandlers
    errorHidden,      \* #error-display has the class hidden
    errorMessage,     \* textContent of #error-message
    inflight,         \* the requests awaiting their response, in issue order
    clock,            \* the number of requests issued so far
    pc,               \* "loading" | "aborted" | "running"
    last              \* the step taken last: its operation, the request and
                      \* the outcome it handled, the time of issue of the
                      \* request whose response built the displayed tree
                      \* (shown) and the same before the step (over)

vars == <<page, bodyLoaded, loadingDisplay, appDisplay, appContent, componentTree,
          buttonHandlers, errorHidden, errorMessage, inflight, clock, pc, last>>

dom == <<appContent, loadingDisplay, appDisplay>>
ui == <<componentTree, buttonHandlers, appContent>>
banner == <<errorHidden, errorMessage>>

HostIds == {"loading", "app-content", "error-display", "error-message", "close-error"}

NoRequest == [endpoint |-> "", event_type |-> "", element_id |-> "", handler_id |-> "",
              value |-> Undefined, timestamp |-> 0]

Step(op, request, outcome) ==
    [op |-> op, request |-> request, outcome |-> outcome,
     shown |-> last.shown, over |-> last.shown]

\* a step that replaced the tree in answer to request
Replaced(op, request, outcome) ==
    [op |-> op, request |-> request, outcome |-> outcome,
     shown |-> request.timestamp, over |-> last.shown]

Init ==
    /\ page \in {HostIds, HostIds \ {"app-content"}}
    /\ bodyLoaded = FALSE
    /\ loadingDisplay = ""
    /\ appDisplay = ""
    /\ appContent = <<>>
    /\ componentTree = ArrayOf(<<>>)
    /\ buttonHandlers = EmptyMap
    /\ errorHidden = TRUE
    /\ errorMessage = ""
    /\ inflight = <<>>
    /\ clock = 0
    /\ pc = "loading"
    /\ last = [op |-> "none", request |-> NoRequest, outcome |-> NoTree,
               shown |-> 0, over |-> 0]

\* showError that leaves a banner that is already visible as it is
showErrorOnce(message) ==
    IF "error-display" \in page /\ "error-message" \in page /\ errorHidden
    THEN <<FALSE, message>>
    ELSE <<errorHidden, errorMessage>>

\* showError(message): the banner after the call
showError(message) ==
    IF "error-display" \in page /\ "error-message" \in page
    THEN <<FALSE, message>>
    ELSE <<errorHidden, errorMessage>>

\* fetch(...) that aborts the requests still awaiting a response
FetchAborting(request) ==
    /\ clock < MaxRequests
    /\ Len(inflight) < MaxInFlight
    /\ inflight' = <<request>>
    /\ clock' = clock + 1

\* fetch(...) issued twice for one call
FetchTwice(request) ==
    /\ clock < MaxRequests
    /\ Len(inflight) < MaxInFlight
    /\ inflight' = Append(Append(inflight, request), request)
    /\ clock' = clock + 2

\* fetch(...): the request joins those awaiting a response
Fetch(request) ==
    /\ clock < MaxRequests
    /\ Len(inflight) < MaxInFlight
    /\ inflight' = Append(inflight, request)
    /\ clock' = clock + 1

\* POST /api/render has no body; timestamp is the time of issue
RenderRequest == [NoRequest EXCEPT !.endpoint = "/api/render", !.timestamp = clock + 1]

\* a boot that runs again whenever the page is idle
BootRepeated ==
    /\ pc \in {"loading", "running"}
    /\ bodyLoaded' = TRUE
    /\ loadingDisplay' = IF "loading" \in page THEN "none" ELSE loadingDisplay
    /\ IF "app-content" \in page
       THEN /\ appDisplay' = "block"
            /\ Fetch(RenderRequest)
            /\ pc' = "running"
       ELSE /\ pc' = "aborted"
            /\ UNCHANGED <<appDisplay, inflight, clock>>
    /\ last' = Step("boot", NoRequest, NoTree)
    /\ UNCHANGED <<page, appContent, componentTree, buttonHandlers, errorHidden, errorMessage>>

\* DOMContentLoaded: main.js builds the app and runs init() up to its first
\* await, then the host page's own listener marks the page loaded
Boot ==
    /\ pc = "loading"
    /\ bodyLoaded' = TRUE
    /\ loadingDisplay' = IF "loading" \in page THEN "none" ELSE loadingDisplay
    /\ IF "app-content" \in page
       THEN /\ appDisplay' = "block"
            /\ Fetch(RenderRequest)
            /\ pc' = "running"
       ELSE /\ pc' = "aborted"
            /\ UNCHANGED <<appDisplay, inflight, clock>>
    /\ last' = Step("boot", NoRequest, NoTree)
    /\ UNCHANGED <<page, appContent, componentTree, buttonHandlers, errorHidden, errorMessage>>

HccRequest(eventType, elementId, handlerId, value) ==
    [endpoint |-> "/hcc", event_type |-> eventType, element_id |-> elementId,
     handler_id |-> handlerId, value |-> value, timestamp |-> clock + 1]

\* a click listener that posts the handler id the registry holds for its
\* element id when the click happens (Map.get, undefined when absent)
ButtonClickLookingUp ==
    /\ pc = "running"
    /\ \E e \in Controls(appContent) :
          LET handlerId == IF e.on.elementId \in DOMAIN buttonHandlers
                           THEN buttonHandlers[e.on.elementId] ELSE ""
          IN  /\ e.on.event = "click"
              /\ Fetch(HccRequest("click", e.on.elementId, handlerId, Undefined))
              /\ last' = Step("click", HccRequest("click", e.on.elementId, handlerId,
                                                  Undefined), NoTree)
    /\ UNCHANGED <<page, bodyLoaded, loadingDisplay, appDisplay, appContent, componentTree,
                   buttonHandlers, errorHidden, errorMessage, pc>>

\* the user clicks a button that has a click listener: the listener calls
\* sendButtonClick(id, handlerId), which runs up to its await of fetch
ButtonClick ==
    /\ pc = "running"
    /\ \E e \in Controls(appContent) :
          /\ e.on.event = "click"
          /\ Fetch(HccRequest("click", e.on.elementId, e.on.handlerId, Undefined))
          /\ last' = Step("click", HccRequest("click", e.on.elementId, e.on.handlerId,
                                              Undefined), NoTree)
    /\ UNCHANGED <<page, bodyLoaded, loadingDisplay, appDisplay, appContent, componentTree,
                   buttonHandlers, errorHidden, errorMessage, pc>>

\* what the user can type into a text input
TypedValues == {"x"}

\* event.target.value or event.target.checked after the user's change
NewValues(e) ==
    IF e.on.reads = "checked" THEN {[bool |-> b] : b \in BOOLEAN}
    ELSE IF e.tag = "select" THEN {[str |-> e.children[i].value] : i \in 1..Len(e.children)}
    ELSE {[str |-> v] : v \in TypedValues}

\* the user changes an input_text, a select or a checkbox: the listener calls
\* sendInputChange(id, value), which runs up to its await of fetch
InputChange ==
    /\ pc = "running"
    /\ \E e \in Controls(appContent) :
          /\ e.on.event \in {"input", "change"}
          /\ \E v \in NewValues(e) :
                /\ Fetch(HccRequest("input", e.on.elementId, "", v))
                /\ last' = Step("input", HccRequest("input", e.on.elementId, "", v), NoTree)
    /\ UNCHANGED <<page, bodyLoaded, loadingDisplay, appDisplay, appContent, componentTree,
                   buttonHandlers, errorHidden, errorMessage, pc>>

\* the request at position i leaves those in flight
Settle(i) ==
    inflight' = SubSeq(inflight, 1, i - 1) \o SubSeq(inflight, i + 1, Len(inflight))

\* render() without its check of response.ok
RenderFailedUnchecked(o) == o.kind = "rejected" \/ ~o.json

\* the outcomes on which render() throws before it has a body: fetch rejects,
\* response.ok is false, or response.json() rejects
RenderFailed(o) == o.kind = "rejected" \/ ~o.ok \/ ~o.json

\* error.message in the catch of render()
RenderFailure(o) ==
    IF o.kind = "rejected" THEN FetchFailedMessage
    ELSE IF ~o.ok THEN "Render failed: " \o o.statusText
    ELSE JsonErrorMessage

\* data.component_tree || []
TreeOrEmpty(o) == IF o.hasTree THEN o.tree ELSE ArrayOf(<<>>)

\* error.message of what renderComponentTree() throws on tree
RenderThrow(tree) == IF tree.isArray THEN RenderThrowMessage ELSE ForEachMessage

\* render() from its await of fetch on: the outcome o of the request
RenderResponse(i, o) ==
    /\ inflight[i].endpoint = "/api/render"
    /\ Settle(i)
    /\ IF RenderFailed(o)
       THEN /\ errorHidden' = showError(RenderFailure(o))[1]
            /\ errorMessage' = showError(RenderFailure(o))[2]
            /\ last' = Step("render-response", inflight[i], o)
            /\ UNCHANGED <<componentTree, buttonHandlers, appContent>>
       ELSE LET done == renderComponentTree(TreeOrEmpty(o), page, appContent, buttonHandlers)
            IN  /\ componentTree' = TreeOrEmpty(o)
                /\ appContent' = done.content
                /\ buttonHandlers' = done.reg
                /\ errorHidden' = IF done.threw THEN showError(RenderThrow(TreeOrEmpty(o)))[1]
                                  ELSE errorHidden
                /\ errorMessage' = IF done.threw THEN showError(RenderThrow(TreeOrEmpty(o)))[2]
                                   ELSE errorMessage
                /\ last' = Replaced("render-response", inflight[i], o)
    /\ UNCHANGED <<page, bodyLoaded, loadingDisplay, appDisplay, clock, pc>>

\* sendButtonClick() without its check of response.ok
ClickFailedUnchecked(o) == o.kind = "rejected" \/ ~o.json

\* the outcomes on which sendButtonClick() throws before it has a body
ClickFailed(o) == o.kind = "rejected" \/ ~o.ok \/ ~o.json

\* error.message in the catch of sendButtonClick()
ClickFailure(o) ==
    IF o.kind = "rejected" THEN FetchFailedMessage
    ELSE IF ~o.ok THEN "HTTP 500: " \o o.statusText
    ELSE JsonErrorMessage

\* a missing component_tree taken for an empty one, as render() takes it
TreeCarriedOrEmpty(o) == TRUE

\* if (data.component_tree)
TreeCarried(o) == o.hasTree

\* sendButtonClick() that calls render() when the response carries a tree,
\* fetching the tree again instead of using the one carried
ClickResponseRefetching(i, o) ==
    /\ inflight[i].endpoint = "/hcc"
    /\ inflight[i].event_type = "click"
    /\ IF ClickFailed(o)
       THEN /\ Settle(i)
            /\ errorHidden' = showError("Button click failed: " \o ClickFailure(o))[1]
            /\ errorMessage' = showError("Button click failed: " \o ClickFailure(o))[2]
            /\ last' = Step("click-response", inflight[i], o)
            /\ UNCHANGED clock
       ELSE IF TreeCarried(o) /\ clock < MaxRequests
       THEN /\ inflight' = Append(SubSeq(inflight, 1, i - 1)
                                     \o SubSeq(inflight, i + 1, Len(inflight)),
                                  RenderRequest)
            /\ clock' = clock + 1
            /\ last' = Step("click-response", inflight[i], o)
            /\ UNCHANGED <<errorHidden, errorMessage>>
       ELSE /\ Settle(i)
            /\ last' = Step("click-response", inflight[i], o)
            /\ UNCHANGED <<errorHidden, errorMessage, clock>>
    /\ UNCHANGED <<page, bodyLoaded, loadingDisplay, appDisplay, pc, componentTree,
                   buttonHandlers, appContent>>

\* sendButtonClick() suspended between the clears of renderComponentTree()
\* and its rebuild
ClickResponseSuspended(i, o) ==
    /\ inflight[i].endpoint = "/hcc"
    /\ inflight[i].event_type = "click"
    /\ Settle(i)
    /\ IF ClickFailed(o)
       THEN /\ errorHidden' = showError("Button click failed: " \o ClickFailure(o))[1]
            /\ errorMessage' = showError("Button click failed: " \o ClickFailure(o))[2]
            /\ last' = Step("click-response", inflight[i], o)
            /\ UNCHANGED <<componentTree, buttonHandlers, appContent>>
       ELSE IF TreeCarried(o)
       THEN /\ componentTree' = o.tree
            /\ appContent' = <<>>
            /\ buttonHandlers' = EmptyMap
            /\ last' = Replaced("click-response", inflight[i], o)
            /\ UNCHANGED <<errorHidden, errorMessage>>
       ELSE /\ last' = Step("click-response", inflight[i], o)
            /\ UNCHANGED <<componentTree, buttonHandlers, appContent, errorHidden,
                           errorMessage>>
    /\ UNCHANGED <<page, bodyLoaded, loadingDisplay, appDisplay, clock, pc>>

\* sendButtonClick() from its await of fetch on
ClickResponse(i, o) ==
    /\ inflight[i].endpoint = "/hcc"
    /\ inflight[i].event_type = "click"
    /\ Settle(i)
    /\ IF ClickFailed(o)
       THEN /\ errorHidden' = showError("Button click failed: " \o ClickFailure(o))[1]
            /\ errorMessage' = showError("Button click failed: " \o ClickFailure(o))[2]
            /\ last' = Step("click-response", inflight[i], o)
            /\ UNCHANGED <<componentTree, buttonHandlers, appContent>>
       ELSE IF TreeCarried(o)
       THEN LET done == renderComponentTree(o.tree, page, appContent, buttonHandlers)
                message == "Button click failed: " \o RenderThrow(o.tree)
            IN  /\ componentTree' = o.tree
                /\ appContent' = done.content
                /\ buttonHandlers' = done.reg
                /\ errorHidden' = IF done.threw THEN showError(message)[1] ELSE errorHidden
                /\ errorMessage' = IF done.threw THEN showError(message)[2] ELSE errorMessage
                /\ last' = Replaced("click-response", inflight[i], o)
       ELSE /\ last' = Step("click-response", inflight[i], o)
            /\ UNCHANGED <<componentTree, buttonHandlers, appContent, errorHidden,
                           errorMessage>>
    /\ UNCHANGED <<page, bodyLoaded, loadingDisplay, appDisplay, clock, pc>>

\* sendInputChange() from its await of fetch on: the body is read and logged
InputResponse(i, o) ==
    /\ inflight[i].endpoint = "/hcc"
    /\ inflight[i].event_type = "input"
    /\ Settle(i)
    /\ last' = Step("input-response", inflight[i], o)
    /\ UNCHANGED <<page, bodyLoaded, loadingDisplay, appDisplay, appContent, componentTree,
                   buttonHandlers, errorHidden, errorMessage, clock, pc>>

\* the host page's listener on #close-error; the button lies inside the banner
CloseError ==
    /\ pc # "loading"
    /\ "close-error" \in page /\ "error-display" \in page
    /\ ~errorHidden
    /\ errorHidden' = TRUE
    /\ last' = Step("close-error", NoRequest, NoTree)
    /\ UNCHANGED <<page, bodyLoaded, loadingDisplay, appDisplay, appContent, componentTree,
                   buttonHandlers, errorMessage, inflight, clock, pc>>

Next ==
    \/ Boot
    \/ ButtonClick
    \/ InputChange
    \/ \E i \in 1..Len(inflight), o \in Outcomes : RenderResponse(i, o)
    \/ \E i \in 1..Len(inflight), o \in Outcomes : ClickResponse(i, o)
    \/ \E i \in 1..Len(inflight), o \in Outcomes : InputResponse(i, o)
    \/ CloseError

Spec == Init /\ [][Next]_vars

\* window.yoguidoApp.render() called from the console: render() up to its
\* await of fetch
DebugRender ==
    /\ pc # "loading"
    /\ Fetch(RenderRequest)
    /\ last' = Step("debug-render", RenderRequest, NoTree)
    /\ UNCHANGED <<page, bodyLoaded, loadingDisplay, appDisplay, appContent, componentTree,
                   buttonHandlers, errorHidden, errorMessage, pc>>

NextDebug == Next \/ DebugRender

\* the runs in which the debugging handle is used as well
SpecDebug == Init /\ [][NextDebug]_vars

\* the registries the debugging handle puts in place: cleared, or holding
\* another handler id for b1
SetRegistries == {EmptyMap, MapSet(EmptyMap, "b1", "stale")}

\* window.yoguidoApp.buttonHandlers.clear() or .set(...) called from the
\* console
SetRegistry ==
    /\ pc = "running"
    /\ \E reg \in SetRegistries :
          /\ reg # buttonHandlers
          /\ buttonHandlers' = reg
    /\ last' = Step("set-registry", NoRequest, NoTree)
    /\ UNCHANGED <<page, bodyLoaded, loadingDisplay, appDisplay, appContent, componentTree,
                   errorHidden, errorMessage, inflight, clock, pc>>

NextRegistry == Next \/ SetRegistry

\* the runs in which the registry is changed behind the controller's back
SpecRegistry == Init /\ [][NextRegistry]_vars

TypeOK ==
    /\ pc \in {"loading", "aborted", "running"}
    /\ clock \in 0..MaxRequests
    /\ Len(inflight) <= MaxInFlight

(***************************************************************************)
(* Properties.                                                             *)
(***************************************************************************)
\* the step just taken resumed a handler of POST /hcc
HccAnswered(step) == step.op \in {"click-response", "input-response"}

\* the outcome is a 2xx response whose body parses
Success(o) == o.kind = "http" /\ o.ok /\ o.json

\* the outcome is a send failure: the fetch rejected or the status is not 2xx
SendFailure(o) == o.kind = "rejected" \/ ~o.ok

\* what a render of tree into an empty content host displays
Displayed(tree) == renderComponentTree(tree, page, <<>>, EmptyMap).content

\* C1: after the successful response to any outbound event (click or value
\* change) that carries a component_tree, the controller's tree is the
\* response's tree and the content host's children are rebuilt from it.
C1_TreeReplacesUI ==
    (HccAnswered(last) /\ Success(last.outcome) /\ last.outcome.hasTree
        /\ last.outcome.tree.isArray)
        => /\ componentTree = last.outcome.tree
           /\ appContent = Displayed(last.outcome.tree)

\* C2: a 2xx response without component_tree leaves the controller's tree,
\* the registry, the content host's children and the banner as they were.
C2_NoTreeNoChange ==
    [][(HccAnswered(last') /\ last'.outcome = NoTree)
          => UNCHANGED <<componentTree, buttonHandlers, appContent, errorHidden,
                         errorMessage>>]_vars

C2_Witness ==
    /\ last.op = "click-response"
    /\ last.outcome = NoTree
    /\ appContent # <<>>
    /\ buttonHandlers # EmptyMap

\* C3: a send failure of an outbound event (rejected, or non-2xx) leaves the
\* controller's tree, the registry and the content host's children unchanged.
C3_FailureKeepsUI ==
    [][(HccAnswered(last') /\ SendFailure(last'.outcome))
          => UNCHANGED <<componentTree, buttonHandlers, appContent>>]_vars

C3_Witness ==
    /\ last.op = "click-response"
    /\ last.outcome = ServerError
    /\ appContent # <<>>
    /\ buttonHandlers # EmptyMap

\* C4: after every send failure on either endpoint, for clicks and value
\* changes alike, the banner is visible and its message is not empty.
C4_FailureShowsBanner ==
    (last.op \in {"render-response", "click-response", "input-response"}
        /\ SendFailure(last.outcome))
        => ~errorHidden /\ errorMessage # ""

\* the ids of the displayed buttons that have a click listener
DisplayedClickIds == {e.id : e \in {c \in Controls(appContent) : c.on.event = "click"}}

\* C5: the registry's keys are exactly the ids of the click-handled buttons
\* that are displayed, and its size is their number.
C5_RegistryIsDisplayedButtons ==
    /\ DOMAIN buttonHandlers = DisplayedClickIds
    /\ Cardinality(DOMAIN buttonHandlers)
          = Cardinality({c \in Controls(appContent) : c.on.event = "click"})

\* every node of a list of nodes, at any depth
RECURSIVE NodesOf(_)
NodesOf(nodes) ==
    IF nodes = <<>> THEN {}
    ELSE IF IsNullish(Head(nodes)) THEN NodesOf(Tail(nodes))
    ELSE {Head(nodes)} \cup NodesOf(Children(Head(nodes))) \cup NodesOf(Tail(nodes))

\* C6: the registry holds no entry from an earlier tree: every key is the id
\* of a click-handled button node of the current tree and maps to the
\* handler id that node declares.
C6_NoStaleEntry ==
    \A k \in DOMAIN buttonHandlers :
        \E n \in NodesOf(componentTree.nodes) :
            /\ n.type = "button"
            /\ n.id = k
            /\ HasClick(n.handlers)
            /\ n.handlers.click = buttonHandlers[k]

\* the click on b1 -> h1 of an earlier tree was answered with the tree in
\* which b1 declares h2
C6_Witness ==
    /\ last.op = "click-response"
    /\ last.request.element_id = "b1"
    /\ last.request.handler_id = "h1"
    /\ componentTree = ArrayOf(TreeForm)
    /\ buttonHandlers = [k \in {"b1"} |-> "h2"]

\* seq without its first occurrence of x
RECURSIVE Without(_, _)
Without(seq, x) ==
    IF seq = <<>> THEN <<>>
    ELSE IF Head(seq) = x THEN Tail(seq)
    ELSE <<Head(seq)>> \o Without(Tail(seq), x)

\* C7: requests overlap and none is canceled: an interaction adds its
\* request to those in flight, a response removes its own request only, and
\* a click response that carries a tree becomes the displayed tree whatever
\* the order of the clicks.
C7_LastResponseWins ==
    [][/\ last'.op \in {"click", "input"} => inflight' = Append(inflight, last'.request)
       /\ last'.op \in {"render-response", "click-response", "input-response"}
             => inflight' = Without(inflight, last'.request)
       /\ (last'.op = "click-response" /\ Success(last'.outcome) /\ last'.outcome.hasTree)
             => componentTree' = last'.outcome.tree]_vars

\* the tree of the earlier click replaced the tree of the later click
C7_Witness ==
    /\ last.op = "click-response"
    /\ Success(last.outcome) /\ last.outcome.hasTree
    /\ last.request.timestamp < last.over
    /\ last.shown = last.request.timestamp
    /\ last.outcome.tree.isArray
    /\ componentTree = last.outcome.tree
    /\ appContent = Displayed(last.outcome.tree)
    /\ appContent # <<>>

\* C8: with the content host absent, boot issues no request, renders
\* nothing and changes nothing of the page.
C8_BootErrorChangesNothing ==
    "app-content" \notin page
        => /\ inflight = <<>> /\ clock = 0
           /\ appContent = <<>> /\ componentTree = ArrayOf(<<>>)
           /\ loadingDisplay = "" /\ appDisplay = ""

\* the step answered POST /api/render with a status that is not 2xx
RenderRefused(step) ==
    step.op = "render-response" /\ step.outcome.kind = "http" /\ ~step.outcome.ok

\* C9 as stated: a non-2xx of fetchTree at boot leaves the loading indicator
\* shown and the content host not revealed, after boot it leaves the tree,
\* and the banner is shown with a message.
C9_LoadingStaysShown ==
    [][RenderRefused(last')
          => /\ last'.request.timestamp = 1
                   => loadingDisplay' # "none" /\ appDisplay' # "block"
             /\ last'.request.timestamp > 1
                   => UNCHANGED <<componentTree, buttonHandlers, appContent>>
             /\ ~errorHidden' /\ errorMessage' # ""]_vars

\* C9 amended: a non-2xx of fetchTree leaves the tree, the registry and the
\* content host's children as they were, with the loading
\* indicator hidden and the content host, where the page has one, revealed,
\* and the banner is shown with a message.
C9_RefusedRenderKeepsTree ==
    [][RenderRefused(last')
          => /\ UNCHANGED <<componentTree, buttonHandlers, appContent>>
             /\ loadingDisplay' = "none"
             /\ "app-content" \in page => appDisplay' = "block"
             /\ ~errorHidden' /\ errorMessage' # ""]_vars

\* fetchTree is refused after boot, over a displayed tree
C9_Witness ==
    /\ RenderRefused(last)
    /\ last.request.timestamp > 1
    /\ appContent # <<>>
    /\ ~errorHidden

\* the constructor of the node itself throws, its children left aside
FailsItself(node) ==
    IsNullish(node) \/ createElement([node EXCEPT !.children = <<>>], EmptyMap).threw

\* the elements of the nodes that construct, in order, at any depth
RECURSIVE IsolatedElements(_)
IsolatedElements(nodes) ==
    IF nodes = <<>> THEN <<>>
    ELSE IF FailsItself(Head(nodes)) THEN IsolatedElements(Tail(nodes))
    ELSE << [createElement([Head(nodes) EXCEPT !.children = <<>>], EmptyMap).el[1]
                EXCEPT !.children = IF Head(nodes).type = "container"
                                    THEN IsolatedElements(Children(Head(nodes)))
                                    ELSE @] >>
         \o IsolatedElements(Tail(nodes))

\* the step rendered the tree its response carried
RenderedTree(step) ==
    /\ step.op \in {"render-response", "click-response"}
    /\ step.shown = step.request.timestamp
    /\ Success(step.outcome)

\* C10: when a node fails to construct, at the root or inside a container,
\* every other node of the tree is displayed in its order and the banner is
\* left alone.
C10_FailureIsolatedPerNode ==
    [][(RenderedTree(last') /\ componentTree'.isArray)
          => /\ appContent' = IsolatedElements(componentTree'.nodes)
             /\ UNCHANGED <<errorHidden, errorMessage>>]_vars

\* C11: an interaction issues exactly one request to POST /hcc, and no
\* other step issues one: a response, failed or not, settles its request and
\* sends nothing again.
C11_OneRequestPerInteraction ==
    [][/\ last'.op \in {"click", "input"}
             => /\ clock' = clock + 1
                /\ inflight' = Append(inflight, last'.request)
                /\ last'.request.endpoint = "/hcc"
       /\ last'.op \in {"render-response", "click-response", "input-response",
                        "close-error"}
             => /\ clock' = clock
                /\ \A i \in 1..Len(inflight') : \E j \in 1..Len(inflight) :
                       inflight'[i] = inflight[j]
                /\ last'.op # "close-error" => Len(inflight') = Len(inflight) - 1]_vars

\* one click, one request, one failed response, and nothing sent again
C11_Witness ==
    /\ last.op = "click-response"
    /\ SendFailure(last.outcome)
    /\ last.request.timestamp = 2
    /\ clock = 2
    /\ inflight = <<>>

\* request comes from a displayed button with a click listener and carries
\* the handler id a button node of the current tree declares for that id
FromDisplayedButton(request) ==
    /\ request.endpoint = "/hcc"
    /\ request.event_type = "click"
    /\ \E e \in Controls(appContent) :
          /\ e.tag = "button"
          /\ e.id = request.element_id
    /\ \E n \in NodesOf(componentTree.nodes) :
          /\ n.type = "button"
          /\ n.id = request.element_id
          /\ HasClick(n.handlers)
          /\ n.handlers.click = request.handler_id

\* C12: a click event joins the requests in flight only by a user's click on
\* a displayed button, with that button's id and the handler id its node
\* declared; no other step posts an event.
C12_ClickEventFromDisplayedButton ==
    [][\A i \in 1..Len(inflight') :
          (/\ inflight'[i].endpoint = "/hcc"
           /\ \A j \in 1..Len(inflight) : inflight[j] # inflight'[i])
             => /\ last'.op \in {"click", "input"}
                /\ last'.request = inflight'[i]
                /\ inflight'[i].event_type = "click"
                      => last'.op = "click" /\ FromDisplayedButton(inflight'[i])]_vars

\* the click on the nested button b1 of the form posted its handler h2
C12_Witness ==
    /\ last.op = "click"
    /\ last.request.element_id = "b1"
    /\ last.request.handler_id = "h2"
    /\ componentTree = ArrayOf(TreeForm)
    /\ inflight # <<>>

\* the button nodes of the current tree that declare no click handler
InertButtons ==
    {n \in NodesOf(componentTree.nodes) : n.type = "button" /\ ~HasClick(n.handlers)}

\* C13: a button node without handlers.click has no registry entry, its
\* element has no listener, and no event in flight that was posted from the
\* displayed tree carries its id.
C13_InertButton ==
    \A n \in InertButtons :
        /\ n.id \notin DOMAIN buttonHandlers
        /\ \A e \in Descendants(appContent) :
              (e.tag = "button" /\ e.id = n.id) => e.on = NoListener
        /\ last.op \in {"click", "input"} => last.request.element_id # n.id

\* the inert button b2 is displayed next to a button that was clicked
C13_Witness ==
    /\ last.op = "click"
    /\ \E e \in Descendants(appContent) :
          e.tag = "button" /\ e.id = "b2" /\ e.on = NoListener
    /\ \E n \in InertButtons : n.id = "b2"

\* the nodes of the current tree with the given id
NodesWithId(id) == {n \in NodesOf(componentTree.nodes) : n.id = id}

\* C14: every displayed text input, select and checkbox has a value-change
\* listener, declared handlers or not; the event it posts has no handler id
\* and carries the new value itself (a string, an option's value, or the
\* checked state); such a control has no registry entry.
C14_ValueControlsAlwaysEmit ==
    /\ \A e \in Descendants(appContent) :
          e.tag \in {"input", "select"}
             => /\ e.on.event \in {"input", "change"}
                /\ e.on.elementId = e.id
                /\ e.on.handlerId = ""
                /\ e.id \notin DOMAIN buttonHandlers
    /\ last.op = "input"
          => /\ last.request.event_type = "input"
             /\ last.request.handler_id = ""
             /\ NodesWithId(last.request.element_id) # {}
             /\ \A n \in NodesWithId(last.request.element_id) :
                   /\ n.type \in {"input_text", "select", "checkbox"}
                   /\ n.type = "checkbox" => DOMAIN last.request.value = {"bool"}
                   /\ n.type = "input_text" => DOMAIN last.request.value = {"str"}
                   /\ n.type = "select"
                         => /\ DOMAIN last.request.value = {"str"}
                            /\ \E i \in 1..Len(Options(n.props)) :
                                  OptionValue(Options(n.props)[i]) = last.request.value.str

\* the checkbox k1, which declares a handler, posted its checked state
C14_Witness ==
    /\ last.op = "input"
    /\ last.request.element_id = "k1"
    /\ last.request.value = [bool |-> FALSE]
    /\ "k1" \notin DOMAIN buttonHandlers

\* the types createElement knows
KnownTypes == {"title", "text", "button", "container", "input_text", "select",
               "checkbox", "table"}

\* the root at position i is reached by the loop: no null entry before it
Reached(nodes, i) == \A k \in 1..i : ~IsNullish(nodes[k])

\* C15: a node of unknown type never makes its constructor throw; at the
\* root its placeholder, whose text names the type, is displayed, and inside
\* a container whose other children construct it is displayed among all of
\* its siblings.
C15_UnknownTypePlaceholder ==
    componentTree.isArray =>
       /\ \A n \in NodesOf(componentTree.nodes) :
             n.type \notin KnownTypes => ~createElement(n, EmptyMap).threw
       /\ \A i \in 1..Len(componentTree.nodes) :
             (Reached(componentTree.nodes, i) /\ componentTree.nodes[i].type \notin KnownTypes)
                => \E j \in 1..Len(appContent) :
                      /\ appContent[j].tag = "div"
                      /\ appContent[j].text
                            = "Unknown component: " \o componentTree.nodes[i].type
       /\ \A i \in 1..Len(componentTree.nodes) :
             LET c == componentTree.nodes[i]
             IN  (/\ Reached(componentTree.nodes, i)
                  /\ c.type = "container"
                  /\ ~IsNullish(c.props)
                  /\ \A k \in 1..Len(Children(c)) :
                        \/ IsNullish(Children(c)[k]) = FALSE
                           /\ Children(c)[k].type \notin KnownTypes
                        \/ IsNullish(Children(c)[k]) = FALSE
                           /\ Children(c)[k].type # "container"
                           /\ ~createElement(Children(c)[k], EmptyMap).threw)
                    => \E j \in 1..Len(appContent) :
                          /\ appContent[j].id = c.id
                          /\ Len(appContent[j].children) = Len(Children(c))
                          /\ \A k \in 1..Len(Children(c)) :
                                Children(c)[k].type \notin KnownTypes
                                   => appContent[j].children[k].text
                                         = "Unknown component: " \o Children(c)[k].type

\* the unknown root "chart" without props and the roots around it
C15_Witness ==
    /\ componentTree = ArrayOf(TreeBrokenRoot)
    /\ Len(appContent) = 3
    /\ appContent[1].id = "b2"
    /\ appContent[2].text = "Unknown component: chart"
    /\ appContent[3].children[1].id = "d1"

\* a tree of the data model: every node is present and has props, its
\* children are nodes of the data model, and a table's rows are present
RECURSIVE WellFormed(_)
WellFormed(nodes) ==
    \A i \in 1..Len(nodes) :
       /\ ~IsNullish(nodes[i])
       /\ ~IsNullish(nodes[i].props)
       /\ nodes[i].type = "table"
             => \A r \in 1..Len(Data(nodes[i].props)) : ~IsNullish(Data(nodes[i].props)[r])
       /\ WellFormed(Children(nodes[i]))

\* the element is the one built for the node, its children for the node's
\* children in order
RECURSIVE Matches(_, _)
Matches(el, node) ==
    CASE node.type = "container" ->
            /\ el.tag = "div"
            /\ el.id = node.id
            /\ Len(el.children) = Len(Children(node))
            /\ \A k \in 1..Len(Children(node)) : Matches(el.children[k], Children(node)[k])
      [] node.type \in {"checkbox", "table"} ->
            /\ el.tag = "div"
            /\ el.children[1].id = node.id
      [] node.type \notin KnownTypes ->
            el.text = "Unknown component: " \o node.type
      [] OTHER -> el.id = node.id

\* the number of elements in a sequence of elements, descendants included
RECURSIVE ElementCount(_)
ElementCount(els) ==
    IF els = <<>> THEN 0
    ELSE 1 + ElementCount(Head(els).children) + ElementCount(Tail(els))

\* the number of td cells of the rows of a table
RECURSIVE CellCount(_, _)
CellCount(props, rows) ==
    IF rows = <<>> THEN 0
    ELSE Len(RowColumns(props, Head(rows))) + CellCount(props, Tail(rows))

\* the number of elements a sequence of nodes stands for: one per node, plus
\* the options of a select, the input and label of a checkbox, the table,
\* head and body parts of a table, and the elements of a container's children
RECURSIVE NodeElementCount(_)
NodeElementCount(nodes) ==
    IF nodes = <<>> THEN 0
    ELSE LET n == Head(nodes)
             own == CASE n.type = "container" -> 1 + NodeElementCount(Children(n))
                      [] n.type = "select" -> 1 + Len(Options(n.props))
                      [] n.type = "checkbox" -> 3
                      [] n.type = "table" ->
                            2 + (IF Len(Columns(n.props)) > 0
                                 THEN 2 + Len(Columns(n.props)) ELSE 0)
                              + 1 + Len(Data(n.props)) + CellCount(n.props, Data(n.props))
                      [] OTHER -> 1
         IN  own + NodeElementCount(Tail(nodes))

\* C16: after a render of a tree of the data model the content host has one
\* child per root node, in tree order; a container's element has the elements
\* of its child nodes as children, in order, and the number of displayed
\* elements is the recursive sum over the nodes.
C16_OneElementPerNodeInOrder ==
    ("app-content" \in page /\ componentTree.isArray /\ WellFormed(componentTree.nodes))
       => /\ Len(appContent) = Len(componentTree.nodes)
          /\ \A i \in 1..Len(componentTree.nodes) :
                Matches(appContent[i], componentTree.nodes[i])
          /\ ElementCount(appContent) = NodeElementCount(componentTree.nodes)

\* the container c1 of the form with its five children, before the button b2
C16_Witness ==
    /\ componentTree = ArrayOf(TreeForm)
    /\ Len(appContent) = 2
    /\ appContent[1].id = "c1"
    /\ Len(appContent[1].children) = 5
    /\ appContent[2].id = "b2"
    /\ ElementCount(appContent) = 11

\* C17: a click whose response carries the tree that is already the current
\* one leaves the content host's elements, the registry and the tree as they
\* were before the click, although everything was rebuilt.
C17_SameTreeRebuildIsIdentity ==
    [][(/\ last'.op = "click-response"
        /\ Success(last'.outcome)
        /\ last'.outcome.hasTree
        /\ last'.outcome.tree = componentTree)
          => UNCHANGED <<appContent, buttonHandlers, componentTree>>]_vars

\* the form answered its own click on b1 with the form again
C17_Witness ==
    /\ last.op = "click-response"
    /\ last.request.element_id = "b1"
    /\ last.request.handler_id = "h2"
    /\ Success(last.outcome)
    /\ last.outcome.hasTree
    /\ last.outcome.tree = ArrayOf(TreeForm)
    /\ last.shown = last.request.timestamp
    /\ last.request.timestamp = 2
    /\ clock = 2
    /\ inflight = <<>>
    /\ componentTree = ArrayOf(TreeForm)
    /\ Len(appContent) = 2
    /\ DOMAIN buttonHandlers = {"b1"}

\* C19: in every state between two actions the displayed elements and the
\* registry are the ones one render of the single current tree builds, never
\* parts of two trees, whatever is in flight.
C19_BuiltFromOneTree ==
    LET built == renderComponentTree(componentTree, page, <<>>, EmptyMap)
    IN  /\ appContent = built.content
        /\ buttonHandlers = built.reg

\* a click's response replaced a displayed tree by another one while a
\* further round trip was in flight
C19_Witness ==
    /\ last.op = "click-response"
    /\ last.shown = last.request.timestamp
    /\ last.over # last.shown
    /\ Len(inflight) >= 1
    /\ componentTree = last.outcome.tree
    /\ appContent # <<>>
    /\ buttonHandlers # EmptyMap

\* the lifecycle state of the controller
Phase ==
    IF pc = "loading" THEN "Booting"
    ELSE IF pc = "aborted" THEN "Aborted"
    ELSE IF \E i \in 1..Len(inflight) : inflight[i].endpoint = "/api/render"
    THEN "RenderingInitial"
    ELSE IF inflight # <<>> THEN "RenderingEvent"
    ELSE "Rendered"

\* the lifecycle transitions
PhaseTransitions ==
    { <<"Booting", "RenderingInitial">>, <<"Booting", "Aborted">>,
      <<"RenderingInitial", "Rendered">>,
      <<"Rendered", "RenderingEvent">>, <<"RenderingEvent", "Rendered">> }

\* nothing is in flight and nothing displayed can start a round trip
Terminal == Phase = "Rendered" /\ Controls(appContent) = {}

\* C18 as stated, in the case it names: the state after a failed initial
\* fetch is not terminal, it still offers the user a way to start a render
\* cycle.
C18_NoTerminalState ==
    (Phase = "Rendered" /\ last.op = "render-response" /\ SendFailure(last.outcome))
       => Controls(appContent) # {}

\* C18: the lifecycle changes only along Booting -> Rendering(initial) ->
\* Rendered and Rendered -> Rendering(event) -> Rendered (or Booting ->
\* aborted); what is displayed changes only at the end of a round trip; and a
\* Rendered state without any interactive element is terminal: no request
\* is issued and tree, elements and registry stay as they are.
C18_LifecycleWithTerminalStates ==
    [][/\ Phase' # Phase => <<Phase, Phase'>> \in PhaseTransitions
       /\ <<componentTree, appContent, buttonHandlers>>'
             # <<componentTree, appContent, buttonHandlers>>
             => Phase \in {"RenderingInitial", "RenderingEvent"} /\ Len(inflight') < Len(inflight)
       /\ Terminal
             => /\ Terminal'
                /\ UNCHANGED <<componentTree, appContent, buttonHandlers, inflight, clock, pc>>]_vars

\* the initial fetch failed: the banner is up over an empty content host and
\* nothing is left to interact with
C18_Witness ==
    /\ last.op = "render-response"
    /\ SendFailure(last.outcome)
    /\ Terminal
    /\ appContent = <<>>
    /\ ~errorHidden

\* the step answered a render or a click with a 2xx response whose body does
\* not parse, or whose component_tree is not a sequence of nodes, or, for
\* /api/render, is missing
MalformedBody(step) ==
    /\ step.op \in {"render-response", "click-response"}
    /\ step.outcome.kind = "http"
    /\ step.outcome.ok
    /\ \/ ~step.outcome.json
       \/ step.outcome.hasTree /\ ~step.outcome.tree.isArray
       \/ step.op = "render-response" /\ ~step.outcome.hasTree

\* C20: a response with a malformed body is handled like a non-2xx status:
\* the banner is shown with a message, and tree, registry and displayed
\* elements stay as they were.
C20_MalformedBodyIsNetworkError ==
    [][MalformedBody(last')
          => /\ ~errorHidden'
             /\ errorMessage' # ""
             /\ UNCHANGED <<componentTree, buttonHandlers, appContent>>]_vars

\* the positions of the /api/render requests among those in flight
RenderRequests(requests) ==
    {i \in 1..Len(requests) : requests[i].endpoint = "/api/render"}

\* C21: /api/render is requested once, by the boot that found the content
\* host, and never again: boot runs once, no other step adds a render
\* request, and a step that replaces the tree after an event issues no
\* request at all.
C21_RenderRequestedOnceAtBoot ==
    [][/\ (last'.op = "boot" /\ "app-content" \in page)
             => /\ pc = "loading"
                /\ clock = 0 /\ clock' = 1
                /\ Len(inflight') = 1
                /\ RenderRequests(inflight') = {1}
       /\ (last'.op = "boot" /\ "app-content" \notin page)
             => inflight' = <<>> /\ clock' = 0
       /\ pc # "loading" => /\ pc' # "loading"
                            /\ last'.op # "boot"
                            /\ Cardinality(RenderRequests(inflight'))
                                  <= Cardinality(RenderRequests(inflight))
       /\ \A i \in RenderRequests(inflight') : inflight'[i].timestamp = 1
       /\ last'.op \in {"click-response", "input-response", "render-response"}
             => clock' = clock /\ Len(inflight') = Len(inflight) - 1]_vars

\* two events after boot, the second one answered with a tree that was
\* rendered: three requests were issued and only the first went to /api/render
C21_Witness ==
    /\ last.op = "click-response"
    /\ last.shown = last.request.timestamp
    /\ last.request.timestamp = 3
    /\ clock = 3
    /\ componentTree = last.outcome.tree
    /\ appContent # <<>>
    /\ RenderRequests(inflight) = {}

\* C22: whatever the registry holds, a click posts the handler id its button's
\* node declared in the displayed tree, a displayed click-handled button can
\* always be clicked, a change of the registry alone changes nothing else,
\* and what a response displays is built from its tree alone.
C22_RegistryNeverRead ==
    [][/\ last'.op = "click" => FromDisplayedButton(last'.request)
       /\ (/\ pc = "running" /\ clock < MaxRequests /\ Len(inflight) < MaxInFlight
           /\ \E e \in Controls(appContent) : e.on.event = "click")
             => ENABLED ButtonClick
       /\ last'.op = "set-registry"
             => UNCHANGED <<page, bodyLoaded, loadingDisplay, appDisplay, appContent,
                            componentTree, errorHidden, errorMessage, inflight, clock, pc>>
       /\ (last'.op \in {"render-response", "click-response"} /\ "app-content" \in page)
             => appContent' = Displayed(componentTree')]_vars

\* b1 of the form was clicked while the registry held another handler id for
\* it: the event carries the declared one
C22_Witness ==
    /\ last.op = "click"
    /\ last.request.element_id = "b1"
    /\ last.request.handler_id = "h2"
    /\ componentTree = ArrayOf(TreeForm)
    /\ buttonHandlers = MapSet(EmptyMap, "b1", "stale")

\* the step ended in a catch that calls showError
Surfaced(step) ==
    \/ /\ step.op = "render-response"
       /\ \/ RenderFailed(step.outcome)
          \/ renderComponentTree(TreeOrEmpty(step.outcome), page, <<>>, EmptyMap).threw
    \/ /\ step.op = "click-response"
       /\ \/ ClickFailed(step.outcome)
          \/ /\ step.outcome.hasTree
             /\ renderComponentTree(step.outcome.tree, page, <<>>, EmptyMap).threw

\* the message that catch hands to showError
SurfacedMessage(step) ==
    IF step.op = "render-response"
    THEN IF RenderFailed(step.outcome) THEN RenderFailure(step.outcome)
         ELSE RenderThrow(TreeOrEmpty(step.outcome))
    ELSE "Button click failed: "
            \o (IF ClickFailed(step.outcome) THEN ClickFailure(step.outcome)
                ELSE RenderThrow(step.outcome.tree))

\* C23: a visible banner is hidden only by the click on the close button,
\* which changes nothing else; every other step, a successful render
\* included, leaves it visible; the banner becomes visible and its message
\* changes only when a failure is surfaced, and the message is then that
\* failure's, also over an older one.
C23_BannerStaysUntilClosed ==
    [][/\ (~errorHidden /\ errorHidden') => last'.op = "close-error"
       /\ last'.op = "close-error"
             => /\ errorHidden'
                /\ UNCHANGED <<errorMessage, componentTree, appContent, buttonHandlers>>
       /\ (errorMessage' # errorMessage \/ (errorHidden /\ ~errorHidden'))
             => Surfaced(last')
       /\ Surfaced(last')
             => /\ ~errorHidden'
                /\ errorMessage' = SurfacedMessage(last')]_vars

\* a click failed, and the next click's tree was rendered under the banner
\* that still shows the failure
C23_Witness ==
    /\ last.op = "click-response"
    /\ Success(last.outcome)
    /\ last.outcome.hasTree
    /\ last.outcome.tree = ArrayOf(TreeForm)
    /\ last.shown = last.request.timestamp
    /\ appContent = Displayed(ArrayOf(TreeForm))
    /\ ~errorHidden
    /\ errorMessage = "Button click failed: " \o FetchFailedMessage
====
